---- MODULE Spec2Model ----
(***************************************************************************)
(* Session / authorization gateway of the MCP business-intelligence       *)
(* server (src/server.ts): the Bun fetch handler's MCP endpoint, the      *)
(* session registry `transports`, and the key store it meters against.    *)
(*                                                                         *)
(* A POST handler suspends at its awaits (validateApiKey, cloned.json(),   *)
(* recordUsage); each in-flight POST occupies a slot and advances one      *)
(* await at a time, so handlers of different requests interleave exactly   *)
(* at the awaits.  GET and DELETE have no await between the registry       *)
(* lookup and transport.handleRequest and are single steps.                *)
(*                                                                         *)
(* ./lib/auth is not part of the sources at hand: validateApiKey,          *)
(* recordUsage, getKeyUsage, getKeyByEmail and createApiKey follow the     *)
(* Key Store / Authorizer contracts of the design document.  The transport *)
(* (WebStandardStreamableHTTPServerTransport) is the MCP SDK's; requests   *)
(* are assumed to carry well-formed Accept / Content-Type headers.         *)
(***************************************************************************)
EXTENDS Integers, Sequences, FiniteSets, TLC

\* ---------------------------------------------------------------- bounds
MaxReqs == 3      \* requests served in one behaviour
MaxSessions == 2  \* sessions bootstrapped in one behaviour
NSlots == 2       \* POST handlers that may be suspended at the same time
MaxMonth == 2     \* calendar months observed
Headroom == 1
MaxCarriers == 2
MaxProbes == 2     \* a persisted account may start this far below its limit

Slots == 1..NSlots
Months == 1..MaxMonth
Sids == 1..MaxSessions           \* session identifiers (randomUUID values)
TIds == 1..MaxReqs           \* transport objects, named by the request that built them

\* ------------------------------------------------------------ vocabulary
None == "<null>"
Undefined == "<undefined>"             \* null / undefined
NoSid == 0                   \* no mcp-session-id header
NoT == 0                     \* no transport

Keys == {"sk_a", "sk_b"}
Emails == {"a", "b"}
Tokens == {"tok_a", "tok_b"}
Codes == {"code_1"}
Verifiers == {"v1", "v2"}
Tiers == {"free", "starter", "pro", "business"}

Bodies == {"initialize", "tools/list", "tools/call", "batch", "unparsable"}
\* "batch" is the JSON array [ {method: "tools/call", ...} ];
\* "unparsable" is a body that is not JSON.

TIER_LIMITS(tier) ==
  CASE tier = "free" -> 10
    [] tier = "starter" -> 200
    [] tier = "pro" -> 1000
    [] tier = "business" -> 5000

\* ------------------------------------------------------------- variables
VARIABLES
  month,       \* current calendar month
  accounts,    \* Key Store: key -> [exists, email, tier, usage: month -> count]
  transports,  \* session registry: sid -> [transport, apiKey] (transport = NoT: no entry)
  tr,          \* transport objects: tid -> [sessionId, initialized, closed, tier];
               \* tier is the argument of createMcpServer its tools close over
  inflight,    \* suspended POST handlers, one per slot
  nreq,        \* requests that have arrived so far
  resp,        \* the response most recently produced, with what the handler did:
               \*   known  the session identifier was in the registry at the lookup
               \*   deny   the authorizer's verdict on the credential (None: valid)
               \*   fwd    the transport whose handleRequest got the request
               \*   alloc  the handler built a transport
               \*   rec    recordUsage calls the handler completed
               \*   newSid the session identifier the transport issued
               \*   gate   the tier the tool handlers of a served tools/call saw
               \*   c      the credential carriers of the request
               \*   id     the id of a JSON-RPC error: "null" or the request's
               \*   headers  names of the response headers
               \*   overtook  handed to the transport before an earlier request
               \*             of the same session
               \*   grant, verifier  the code and verifier of a token request
  usage0,      \* history: the usage counters at start-up
  toolsServed, \* history: tool invocations served by a session transport, per key and month
  billable,    \* history: requests handed to a newly built transport, plus single
               \* tools/call requests handed to a session transport after recordUsage
  tokens,      \* OAuth Bridge: access token -> the key it is bound to (None: not issued)
  codes,       \* OAuth Bridge: authorization code -> [state, key, challenge];
               \* state "none" (not issued), "issued", "exchanged", "expired"
  env,         \* process.env: [ADMIN_SECRET], Undefined when the variable is not set
  sd           \* the SIGINT handler: [pc, keys, cur, attempted]
               \*   pc    "running" (no signal yet), "closing" (suspended in await
               \*         transport.close()), "exited" (process.exit was called)
               \*   keys  session identifiers the for-in loop has still to visit
               \*   cur   the session identifier whose close is awaited
               \*   attempted  session identifiers close was called for

vars == <<month, accounts, transports, tr, inflight, nreq, resp, usage0, toolsServed, billable,
          tokens, codes, env, sd>>

NoCarriers ==
  [xApiKey |-> None, apikeyHdr |-> None, q_api_key |-> None, q_apiKey |-> None,
   q_apikey |-> None, authScheme |-> None, authToken |-> None]

Truthy(v) == v # None /\ v # ""

\* variant: the Authorization header is taken as it is
BearerToken_raw(c) ==
  IF c.authScheme = None THEN None ELSE "raw-authorization-header"

\* req.headers.get("authorization")?.replace(/^Bearer\s+/i, "")
BearerToken(c) ==
  IF c.authScheme = None THEN None
  ELSE IF c.authScheme = "Bearer" THEN c.authToken
  ELSE "raw-authorization-header"

Or(a, b) == IF Truthy(a) THEN a ELSE b

\* variant: the bearer token is looked at first
ExtractApiKey_bearerFirst(c) ==
  Or(BearerToken(c), Or(c.xApiKey, Or(c.apikeyHdr, Or(c.q_api_key, Or(c.q_apiKey, c.q_apikey)))))

\* const apiKey = x-api-key || apikey || ?api_key || ?apiKey || ?apikey || bearerToken
ExtractApiKey(c) ==
  Or(c.xApiKey, Or(c.apikeyHdr, Or(c.q_api_key, Or(c.q_apiKey, Or(c.q_apikey, BearerToken(c))))))

\* ------------------------------------------------- Key Store / Authorizer
Used(k) == accounts[k].usage[month]

\* resolveToken(token): the key an issued access token is bound to
resolveToken(token) == IF token \in Tokens THEN tokens[token] ELSE None

\* authorize(credential): missing, unknown (after the attempt to resolve it as
\* an access token), quota exceeded, or valid with tier
validateApiKey(apiKey) ==
  LET key == IF resolveToken(apiKey) # None THEN resolveToken(apiKey) ELSE apiKey IN
  IF ~Truthy(apiKey)
    THEN [valid |-> FALSE, error |-> "MissingCredential", tier |-> None]
  ELSE IF key \notin Keys \/ ~accounts[key].exists
    THEN [valid |-> FALSE, error |-> "UnknownCredential", tier |-> None]
  ELSE IF Used(key) >= TIER_LIMITS(accounts[key].tier)
    THEN [valid |-> FALSE, error |-> "QuotaExceeded", tier |-> None]
  ELSE [valid |-> TRUE, error |-> None, tier |-> accounts[key].tier]

\* recordUsage(key): the current month's counter of an existing account + 1
recordUsage(acc, apiKey) ==
  IF apiKey \in Keys /\ acc[apiKey].exists
    THEN [acc EXCEPT ![apiKey].usage[month] = @ + 1]
    ELSE acc

\* getKeyByEmail(email): the keys of the accounts registered for the email
getKeyByEmail(acc, email) == {k \in Keys : acc[k].exists /\ acc[k].email = email}

\* createApiKey(name, tier, email): a key never issued before, with no usage
NewKey(acc) == CHOOSE k \in Keys : ~acc[k].exists
createApiKey(acc, tier, email) ==
  [acc EXCEPT ![NewKey(acc)] = [exists |-> TRUE, email |-> email, tier |-> tier,
                                usage |-> [m \in Months |-> 0]]]

\* upgradeKey(email, tier): the tier of the email's account is replaced
upgradeKey(acc, email, tier) ==
  [k \in Keys |-> IF acc[k].exists /\ acc[k].email = email
                    THEN [acc[k] EXCEPT !.tier = tier] ELSE acc[k]]

Bump(f, apiKey, d) ==
  IF apiKey \in Keys THEN [f EXCEPT ![apiKey][month] = @ + d] ELSE f

\* -------------------------------------------------------------- requests
Idle ==
  [pc |-> "idle", n |-> 0, sid |-> NoSid, apiKey |-> None, body |-> None,
   t |-> NoT, known |-> FALSE, deny |-> None, c |-> NoCarriers,
   op |-> None, email |-> None, tier |-> None]

NoEntry == [transport |-> NoT, apiKey |-> ""]
FreshT == [sessionId |-> NoSid, initialized |-> FALSE, closed |-> FALSE, tier |-> None]

NoResp ==
  [n |-> 0, method |-> "none", sid |-> NoSid, apiKey |-> None, body |-> None,
   status |-> 0, code |-> 0, msg |-> None, fwd |-> NoT, known |-> FALSE,
   deny |-> None, alloc |-> FALSE, rec |-> 0, newSid |-> NoSid, gate |-> None,
   c |-> NoCarriers, id |-> None, headers |-> {}, overtook |-> FALSE, email |-> None,
   grant |-> None, verifier |-> None]

NoCode == [state |-> "none", key |-> None, challenge |-> None]

NotSignalled == [pc |-> "running", keys |-> {}, cur |-> NoSid, attempted |-> {}]

\* the process is alive: process.exit has not been called
Running == sd.pc # "exited"

Start ==
  /\ month = 1
  /\ \E u \in {0, TIER_LIMITS("free") - Headroom} :
       accounts = [k \in Keys |->
                     IF k = "sk_a"
                       THEN [exists |-> TRUE, email |-> "a", tier |-> "free",
                             usage |-> [m \in Months |-> IF m = 1 THEN u ELSE 0]]
                       ELSE [exists |-> FALSE, email |-> None, tier |-> "free",
                             usage |-> [m \in Months |-> 0]]]
  /\ transports = [s \in Sids |-> NoEntry]
  /\ tr = [t \in TIds |-> FreshT]
  /\ inflight = [s \in Slots |-> Idle]
  /\ nreq = 0
  /\ resp = NoResp
  /\ usage0 = [k \in Keys |-> accounts[k].usage]
  /\ toolsServed = [k \in Keys |-> [m \in Months |-> 0]]
  /\ billable = [k \in Keys |-> [m \in Months |-> 0]]
  /\ tokens = [t \in Tokens |-> None]
  /\ codes = [c \in Codes |-> NoCode]
  /\ sd = NotSignalled

\* the server started with an admin secret in its environment
Init == Start /\ env = [ADMIN_SECRET |-> "admin-secret"]

\* the server started with ADMIN_SECRET set, set to the empty string, or not set
EnvSettings == {"admin-secret", "", Undefined}
InitAdmin == Start /\ env \in [ADMIN_SECRET : EnvSettings]

\* ---------------------------------------------------- router decisions
\* sessionId && transports[sessionId]
SessionKnown(reg, sid) == sid # NoSid /\ reg[sid].transport # NoT

\* variant: GET / DELETE gated by the authorizer as well
SessionOpAdmitted_auth(reg, sid, cred) ==
  SessionKnown(reg, sid) /\ validateApiKey(cred).valid

\* GET / DELETE are forwarded on the session lookup alone ("no re-auth is needed here")
SessionOpAdmitted(reg, sid, cred) == SessionKnown(reg, sid)

\* variant: credential-less discovery requests without a session pass the gate
AuthDenied_discovery(r, authResult) ==
  /\ ~authResult.valid
  /\ ~(r.sid = NoSid /\ ~Truthy(r.apiKey) /\ r.body \in {"initialize", "tools/list"})

\* variant: the gate applies at session bootstrap only
AuthDenied_bootOnly(r, authResult) == ~authResult.valid /\ ~r.known

\* variant: the gate never denies
AuthDenied_off(r, authResult) == FALSE

\* variant: on an existing session the gate applies to tool calls only
AuthDenied_toolsOnly(r, authResult) ==
  ~authResult.valid /\ (~r.known \/ r.body = "tools/call")

\* if (!authResult.valid) return 401
AuthDenied(r, authResult) == ~authResult.valid

\* variant: tools/list is metered like a tool call
IsToolCall_anyMethod(body) == body \in {"tools/call", "tools/list"}

\* body?.method === "tools/call"
IsToolCall(body) == body = "tools/call"

\* variant: the code tells the missing credential from the failed authorization
AuthErrorCode_byReason(authResult) ==
  IF authResult.error = "MissingCredential" THEN -32002 ELSE -32001

\* error: { code: -32001, message: authResult.error }
AuthErrorCode(authResult) == -32001

\* error: { code: -32001, message: "API key required for tool calls..." }
KeyRequiredCode == -32001

\* error: { code: -32603, message: "Internal server error" }
InternalErrorCode == -32603

\* createMcpServer(authResult.tier || "free")
ServerTier(authResult) == Or(authResult.tier, "free")

\* const { transport } = transports[sessionId]
SessionTransport(reg, sid) == reg[sid].transport

\* variant: the callback registers the transport built last (a shared variable
\* instead of the handler's own const)
OnSessionInitialized_shared(reg, sid, t, apiKey) ==
  LET built == {t} \cup {inflight[s].t : s \in {x \in Slots : inflight[x].pc = "init"}}
      latest == CHOOSE b \in built : \A o \in built : o <= b
  IN [reg EXCEPT ![sid] = [transport |-> latest, apiKey |-> Or(apiKey, "")]]

\* onsessioninitialized: transports[sid] = { transport, apiKey: apiKey || "" }
OnSessionInitialized(reg, sid, t, apiKey) ==
  [reg EXCEPT ![sid] = [transport |-> t, apiKey |-> Or(apiKey, "")]]

\* onsessionclosed: delete transports[sid]
OnSessionClosed(reg, sid) == [reg EXCEPT ![sid] = NoEntry]

\* variant: an unknown session identifier is closed "successfully"
DeleteUnknown_noop == [status |-> 200, code |-> 0, msg |-> "closed"]

\* the answer to a DELETE whose session identifier is not in the registry
DeleteUnknown == [status |-> 404, code |-> -32000, msg |-> "Session not found"]

\* sessionIdGenerator: () => randomUUID() -- a value no transport has been given before
IssuedSids == {tr[t].sessionId : t \in TIds} \ {NoSid}
randomUUID == CHOOSE sid \in Sids \ IssuedSids : \A o \in Sids \ IssuedSids : o <= sid

\* headers of the responses the router builds itself: Content-Type and corsHeaders
RouterHeaders == {"Content-Type", "Access-Control-Allow-Origin"}

\* headers of the responses of transport.handleRequest
TransportHeaders == {"Content-Type", "mcp-session-id"}

\* a request handed to transport t while a request of the same session that
\* arrived earlier is still suspended in its handler
Overtakes(r, t) ==
  \E o \in Slots : inflight[o].pc \in {"body", "record"} /\ inflight[o].t = t
                    /\ inflight[o].sid = r.sid /\ inflight[o].n < r.n

Answer(r, method, status, code, msg, fwd, alloc, rec, newSid) ==
  [n |-> r.n, method |-> method, sid |-> r.sid, apiKey |-> r.apiKey, body |-> r.body,
   status |-> status, code |-> code, msg |-> msg, fwd |-> fwd, known |-> r.known,
   deny |-> r.deny, alloc |-> alloc, rec |-> rec, newSid |-> newSid, gate |-> None,
   c |-> r.c, id |-> IF code # 0 THEN "null" ELSE "request",
   headers |-> IF fwd # NoT THEN TransportHeaders
               ELSE IF status = 500 THEN {"Content-Type"} ELSE RouterHeaders,
   overtook |-> fwd # NoT /\ Overtakes(r, fwd), email |-> None,
   grant |-> None, verifier |-> None]

\* the tier the tool handlers test: if (!PRO_TIERS.includes(tier)), tier !== "business"
ToolTier(T) == T.tier

ContainsToolCall(body) == body \in {"tools/call", "batch"}

\* ------------------------------------------------------------ transport
\* transport.handleRequest(req) for a POST, called by the handler r on transport t
\* after rec completed recordUsage calls; alloc: the handler built t itself.
\* The SDK transport answers a body that is not JSON with a parse error, issues
\* a session identifier on the first initialize, and otherwise requires an
\* initialized transport and a matching mcp-session-id.  What a transport that
\* was closed meanwhile answers is left open (status 0).
TransportPost(r, t, rec, alloc) ==
  LET T == tr[t] IN
  /\ billable' = IF (alloc /\ Truthy(r.apiKey)) \/ (~alloc /\ r.body = "tools/call" /\ rec = 1)
                   THEN Bump(billable, r.apiKey, 1)
                   ELSE billable
  /\ IF r.body = "unparsable" THEN
       /\ resp' = Answer(r, "POST", 400, -32700, "Parse error", t, alloc, rec, NoSid)
       /\ UNCHANGED <<tr, transports, toolsServed>>
     ELSE IF r.body = "initialize" THEN
       IF T.initialized THEN
         /\ resp' = Answer(r, "POST", 400, -32600, "Server already initialized",
                           t, alloc, rec, NoSid)
         /\ UNCHANGED <<tr, transports, toolsServed>>
       ELSE
         LET sid == randomUUID IN
         /\ tr' = [tr EXCEPT ![t] = [T EXCEPT !.sessionId = sid, !.initialized = TRUE]]
         /\ transports' = OnSessionInitialized(transports, sid, t, r.apiKey)
         /\ resp' = Answer(r, "POST", 200, 0, "initialized", t, alloc, rec, sid)
         /\ UNCHANGED toolsServed
     ELSE IF ~T.initialized \/ r.sid = NoSid THEN
       /\ resp' = Answer(r, "POST", 400, -32000, "Bad Request", t, alloc, rec, NoSid)
       /\ UNCHANGED <<tr, transports, toolsServed>>
     ELSE IF r.sid # T.sessionId THEN
       /\ resp' = Answer(r, "POST", 404, -32001, "Session not found", t, alloc, rec, NoSid)
       /\ UNCHANGED <<tr, transports, toolsServed>>
     ELSE IF T.closed THEN
       /\ resp' = Answer(r, "POST", 0, 0, "transport closed", t, alloc, rec, NoSid)
       /\ UNCHANGED <<tr, transports, toolsServed>>
     ELSE
       /\ resp' = [Answer(r, "POST", 200, 0, "served", t, alloc, rec, NoSid)
                     EXCEPT !.gate = IF ContainsToolCall(r.body) THEN ToolTier(T) ELSE None]
       /\ toolsServed' = IF ContainsToolCall(r.body) THEN Bump(toolsServed, r.apiKey, 1)
                                                     ELSE toolsServed
       /\ UNCHANGED <<tr, transports>>

\* ------------------------------------------------------------- handlers
\* process.env.ADMIN_SECRET
ADMIN_SECRET == env.ADMIN_SECRET

\* if (!ADMIN_SECRET) "ADMIN_SECRET not set in environment. Admin endpoints disabled."
AdminDisabled == ADMIN_SECRET \in {"", Undefined}

\* variant: signup never looks the email up
SignupRecovers_never(existing) == FALSE

\* if (existing) return its key
SignupRecovers(existing) == existing # {}

\* sessions issued so far plus initialize requests still in flight
Bootstraps ==
  Cardinality(IssuedSids) + Cardinality({s \in Slots : inflight[s].body = "initialize"})

\* GET /mcp: the server-push stream of a session
Get(sid, cred) ==
  /\ nreq < MaxReqs
  /\ nreq' = nreq + 1
  /\ LET r == [Idle EXCEPT !.n = nreq + 1, !.sid = sid, !.apiKey = cred,
                           !.deny = validateApiKey(cred).error,
                           !.known = SessionKnown(transports, sid)] IN
     IF SessionOpAdmitted(transports, sid, cred)
       THEN resp' = Answer(r, "GET", 200, 0, "stream", SessionTransport(transports, sid),
                           FALSE, 0, NoSid)
       ELSE resp' = Answer(r, "GET", 400, -32000, "Bad request", NoT, FALSE, 0, NoSid)
  /\ UNCHANGED <<month, accounts, transports, tr, inflight, usage0, toolsServed, billable>>
  /\ Running
  /\ UNCHANGED <<tokens, codes, env, sd>>

\* DELETE /mcp: session teardown; the transport calls onsessionclosed and closes
Delete(sid, cred) ==
  /\ nreq < MaxReqs
  /\ nreq' = nreq + 1
  /\ LET r == [Idle EXCEPT !.n = nreq + 1, !.sid = sid, !.apiKey = cred,
                           !.deny = validateApiKey(cred).error,
                           !.known = SessionKnown(transports, sid)] IN
     IF SessionOpAdmitted(transports, sid, cred)
       THEN LET t == SessionTransport(transports, sid) IN
            /\ transports' = OnSessionClosed(transports, tr[t].sessionId)
            /\ tr' = [tr EXCEPT ![t].closed = TRUE]
            /\ resp' = Answer(r, "DELETE", 200, 0, "closed", t, FALSE, 0, NoSid)
       ELSE /\ resp' = Answer(r, "DELETE", DeleteUnknown.status, DeleteUnknown.code,
                              DeleteUnknown.msg, NoT, FALSE, 0, NoSid)
            /\ UNCHANGED <<transports, tr>>
  /\ UNCHANGED <<month, accounts, inflight, usage0, toolsServed, billable>>
  /\ Running
  /\ UNCHANGED <<tokens, codes, env, sd>>

\* POST /mcp up to the point where validateApiKey has resolved and the handler
\* has decided its path: 401 on denial; for a known session the transport is
\* looked up and the handler awaits cloned.json() (and, for a tools/call,
\* recordUsage); otherwise a transport is built and connect / recordUsage awaited.
\* Nothing shared is read between the arrival and the resolution.
Post(s, sid, c, body) ==
  LET apiKey == ExtractApiKey(c)
      authResult == validateApiKey(apiKey)
      r == [Idle EXCEPT !.n = nreq + 1, !.sid = sid, !.apiKey = apiKey, !.body = body,
                        !.c = c,
                        !.deny = authResult.error,
                        !.known = SessionKnown(transports, sid)]
  IN
  /\ nreq < MaxReqs
  /\ inflight[s].pc = "idle"
  /\ \A o \in Slots : o < s => inflight[o].pc # "idle"
  /\ body = "initialize" => Bootstraps < MaxSessions
  /\ nreq' = nreq + 1
  /\ IF AuthDenied(r, authResult) THEN
       /\ resp' = Answer(r, "POST", 401, AuthErrorCode(authResult), authResult.error,
                         NoT, FALSE, 0, NoSid)
       /\ UNCHANGED inflight
     ELSE IF SessionKnown(transports, sid) THEN
       IF body # "unparsable" /\ IsToolCall(body) THEN
         IF ~Truthy(apiKey) THEN
           /\ resp' = [Answer(r, "POST", 401, KeyRequiredCode, "API key required for tool calls",
                              NoT, FALSE, 0, NoSid) EXCEPT !.id = "request", !.headers = {"Content-Type"}]
           /\ UNCHANGED inflight
         ELSE
           /\ inflight' = [inflight EXCEPT ![s] =
                             [r EXCEPT !.pc = "record", !.t = SessionTransport(transports, sid)]]
           /\ UNCHANGED resp
       ELSE
         /\ inflight' = [inflight EXCEPT ![s] =
                           [r EXCEPT !.pc = "body", !.t = SessionTransport(transports, sid)]]
         /\ UNCHANGED resp
     ELSE
       /\ inflight' = [inflight EXCEPT ![s] = [r EXCEPT !.pc = "init", !.t = r.n]]
       /\ UNCHANGED resp
  /\ tr' = IF ~AuthDenied(r, authResult) /\ ~SessionKnown(transports, sid)
             THEN [tr EXCEPT ![r.n].tier = ServerTier(authResult)]
             ELSE tr
  /\ UNCHANGED <<month, accounts, transports, usage0, toolsServed, billable>>
  /\ Running
  /\ UNCHANGED <<tokens, codes, env, sd>>

\* existing session, cloned.json() has settled for a request that is not a single
\* tools/call (or whose body does not parse): it is handed to the transport
BodyStep(s) ==
  LET r == inflight[s] IN
  /\ r.pc = "body"
  /\ TransportPost(r, r.t, 0, FALSE)
  /\ inflight' = [inflight EXCEPT ![s] = Idle]
  /\ UNCHANGED <<month, accounts, nreq, usage0>>
  /\ Running
  /\ UNCHANGED <<tokens, codes, env, sd>>

\* existing session, recordUsage(apiKey) has settled (ok) or thrown (~ok);
\* the empty catch lets the request through either way
RecordStep(s, ok) ==
  LET r == inflight[s] IN
  /\ r.pc = "record"
  /\ accounts' = IF ok THEN recordUsage(accounts, r.apiKey) ELSE accounts
  /\ TransportPost(r, r.t, IF ok THEN 1 ELSE 0, FALSE)
  /\ inflight' = [inflight EXCEPT ![s] = Idle]
  /\ UNCHANGED <<month, nreq, usage0>>
  /\ Running
  /\ UNCHANGED <<tokens, codes, env, sd>>

\* no known session: mcpServer.connect and recordUsage have settled; the
\* request goes to the new transport, or recordUsage threw and the answer is 500
InitStep(s, ok) ==
  LET r == inflight[s] IN
  /\ r.pc = "init"
  /\ IF ~Truthy(r.apiKey) THEN
       /\ TransportPost(r, r.t, 0, TRUE)
       /\ UNCHANGED accounts
     ELSE IF ok THEN
       /\ accounts' = recordUsage(accounts, r.apiKey)
       /\ TransportPost(r, r.t, 1, TRUE)
     ELSE
       /\ resp' = Answer(r, "POST", 500, InternalErrorCode, "Internal server error", NoT, TRUE, 0, NoSid)
       /\ UNCHANGED <<accounts, billable, tr, transports, toolsServed>>
  /\ inflight' = [inflight EXCEPT ![s] = Idle]
  /\ UNCHANGED <<month, nreq, usage0>>
  /\ Running
  /\ UNCHANGED <<tokens, codes, env, sd>>

\* GET /api/keys/usage
UsageLookup(key) ==
  /\ nreq < MaxReqs
  /\ nreq' = nreq + 1
  /\ resp' = IF key \in Keys /\ accounts[key].exists
               THEN [NoResp EXCEPT !.n = nreq + 1, !.method = "USAGE", !.apiKey = key, !.status = 200,
                                   !.rec = Used(key)]
               ELSE [NoResp EXCEPT !.n = nreq + 1, !.method = "USAGE", !.apiKey = key, !.status = 404]
  /\ UNCHANGED <<month, accounts, transports, tr, inflight, usage0, toolsServed, billable>>
  /\ Running
  /\ UNCHANGED <<tokens, codes, env, sd>>

\* POST /api/keys/signup up to the point where getKeyByEmail has resolved: the
\* existing key of the email is returned with its tier and usage; otherwise the
\* handler awaits createApiKey for a free account.
Signup(s, name, email) ==
  LET existing == getKeyByEmail(accounts, email)
      out == [NoResp EXCEPT !.n = nreq + 1, !.method = "SIGNUP", !.email = email] IN
  /\ nreq < MaxReqs
  /\ inflight[s].pc = "idle"
  /\ \A o \in Slots : o < s => inflight[o].pc # "idle"
  /\ nreq' = nreq + 1
  /\ IF ~Truthy(email) \/ ~Truthy(name) THEN
       /\ resp' = [out EXCEPT !.status = 400, !.msg = "name and email required"]
       /\ UNCHANGED inflight
     ELSE IF SignupRecovers(existing) THEN
       LET k == CHOOSE x \in existing : TRUE IN
       /\ resp' = [out EXCEPT !.apiKey = k, !.status = 200, !.rec = Used(k),
                              !.gate = accounts[k].tier, !.msg = "recovered"]
       /\ UNCHANGED inflight
     ELSE
       /\ inflight' = [inflight EXCEPT ![s] =
            [Idle EXCEPT !.pc = "create", !.n = nreq + 1, !.op = "SIGNUP",
                         !.email = email, !.tier = "free"]]
       /\ UNCHANGED resp
  /\ UNCHANGED <<month, accounts, transports, tr, usage0, toolsServed, billable>>
  /\ Running
  /\ UNCHANGED <<tokens, codes, env, sd>>

\* POST /api/keys/provision up to the point where getKeyByEmail has resolved:
\* with the admin secret, the email's account is moved to the tier; for an
\* email without account the handler awaits createApiKey for the tier.
Provision(s, hdr, email, tier) ==
  LET existing == getKeyByEmail(accounts, email)
      out == [NoResp EXCEPT !.n = nreq + 1, !.method = "PROVISION", !.email = email] IN
  /\ nreq < MaxReqs
  /\ inflight[s].pc = "idle"
  /\ \A o \in Slots : o < s => inflight[o].pc # "idle"
  /\ nreq' = nreq + 1
  /\ IF hdr # ADMIN_SECRET THEN
       /\ resp' = [out EXCEPT !.status = 401, !.msg = "Unauthorized"]
       /\ UNCHANGED <<accounts, inflight>>
     ELSE IF ~Truthy(email) \/ ~Truthy(tier) THEN
       /\ resp' = [out EXCEPT !.status = 400, !.msg = "email and tier required"]
       /\ UNCHANGED <<accounts, inflight>>
     ELSE IF existing # {} THEN
       /\ accounts' = upgradeKey(accounts, email, tier)
       /\ resp' = [out EXCEPT !.apiKey = CHOOSE x \in existing : TRUE, !.status = 200,
                              !.gate = tier, !.msg = "upgraded"]
       /\ UNCHANGED inflight
     ELSE
       /\ inflight' = [inflight EXCEPT ![s] =
            [Idle EXCEPT !.pc = "create", !.n = nreq + 1, !.op = "PROVISION",
                         !.email = email, !.tier = tier]]
       /\ UNCHANGED <<accounts, resp>>
  /\ UNCHANGED <<month, transports, tr, usage0, toolsServed, billable>>
  /\ Running
  /\ UNCHANGED <<tokens, codes, env, sd>>

\* await createApiKey(name, tier, email) resolves or, for an email that has an
\* account by now, rejects (DuplicateEmail) into the handler's catch: 500
CreateStep(s) ==
  LET r == inflight[s]
      out == [NoResp EXCEPT !.n = r.n, !.method = r.op, !.email = r.email] IN
  /\ r.pc = "create"
  /\ inflight' = [inflight EXCEPT ![s] = Idle]
  /\ IF getKeyByEmail(accounts, r.email) # {} THEN
       /\ resp' = [out EXCEPT !.status = 500, !.msg = "DuplicateEmail"]
       /\ UNCHANGED accounts
     ELSE
       /\ accounts' = createApiKey(accounts, r.tier, r.email)
       /\ resp' = [out EXCEPT !.apiKey = NewKey(accounts), !.status = 200,
                              !.gate = r.tier, !.msg = "created"]
  /\ UNCHANGED <<month, transports, tr, nreq, usage0, toolsServed, billable>>
  /\ Running
  /\ UNCHANGED <<tokens, codes, env, sd>>

\* the calendar month rolls over
AdvanceMonth ==
  /\ month < MaxMonth
  /\ month' = month + 1
  /\ UNCHANGED <<accounts, transports, tr, inflight, nreq, resp, usage0, toolsServed, billable>>
  /\ Running
  /\ UNCHANGED <<tokens, codes, env, sd>>

\* the PKCE transform of a verifier (S256)
Transform(verifier) == <<"S256", verifier>>

\* variant: a code that was exchanged can be exchanged again
CodeRedeemable_replay(c) == c.state \in {"issued", "exchanged"}

\* exchangeCode accepts a code that was issued and neither exchanged nor expired
CodeRedeemable(c) == c.state = "issued"

\* a token never minted before
NewToken == CHOOSE t \in Tokens : tokens[t] = None

\* handleOAuthRoute, authorization endpoint: the user authenticates with a key
\* the authorizer accepts (validateKey) and a one-time code bound to the key
\* and to the PKCE challenge is issued
Authorize(code, key, verifier) ==
  /\ Running
  /\ codes[code].state = "none"
  /\ validateApiKey(key).valid
  /\ codes' = [codes EXCEPT ![code] =
                 [state |-> "issued", key |-> key, challenge |-> Transform(verifier)]]
  /\ UNCHANGED <<month, accounts, transports, tr, inflight, nreq, resp, usage0,
                 toolsServed, billable, tokens, env, sd>>

\* the short lifetime of an issued code is over
ExpireCode(code) ==
  /\ Running
  /\ codes[code].state = "issued"
  /\ codes' = [codes EXCEPT ![code].state = "expired"]
  /\ UNCHANGED <<month, accounts, transports, tr, inflight, nreq, resp, usage0,
                 toolsServed, billable, tokens, env, sd>>

\* handleOAuthRoute, token endpoint: exchangeCode(code, codeVerifier) mints an
\* access token bound to the code's key for a redeemable code whose challenge
\* the verifier matches, and the code is used up; anything else is invalid_grant
ExchangeCode(code, verifier) ==
  LET c == codes[code]
      out == [NoResp EXCEPT !.n = nreq + 1, !.method = "TOKEN", !.grant = code,
                            !.verifier = verifier] IN
  /\ Running
  /\ nreq < MaxReqs
  /\ nreq' = nreq + 1
  /\ IF CodeRedeemable(c) /\ Transform(verifier) = c.challenge
          /\ \E t \in Tokens : tokens[t] = None
       THEN /\ tokens' = [tokens EXCEPT ![NewToken] = c.key]
            /\ codes' = [codes EXCEPT ![code].state = "exchanged"]
            /\ resp' = [out EXCEPT !.status = 200, !.apiKey = NewToken, !.msg = "access_token"]
       ELSE /\ resp' = [out EXCEPT !.status = 400, !.msg = "invalid_grant"]
            /\ UNCHANGED <<tokens, codes>>
  /\ UNCHANGED <<month, accounts, transports, tr, inflight, usage0, toolsServed, billable,
                 env, sd>>

\* the for-in loop from its head to the next await or to process.exit: keys
\* deleted meanwhile are skipped; a key added after the loop began may or may
\* not be visited; transport.close() is called for the key picked (next) and
\* the handler is suspended in the await, or no key is left and the process exits
LoopFrom(reg, keys, att, next) ==
  LET snapshot == {sid \in keys : SessionKnown(reg, sid)}
      added == {sid \in Sids \ keys : SessionKnown(reg, sid) /\ sid \notin att}
  IN
  IF next = NoSid
    THEN /\ snapshot = {}
         /\ sd' = [pc |-> "exited", keys |-> {}, cur |-> NoSid, attempted |-> att]
         /\ UNCHANGED tr
    ELSE /\ next \in snapshot \cup added
         /\ sd' = [pc |-> "closing", keys |-> keys \ {next}, cur |-> next,
                   attempted |-> att \cup {next}]
         /\ tr' = [tr EXCEPT ![SessionTransport(reg, next)].closed = TRUE]

\* SIGINT arrives: the handler runs up to its first await, or to process.exit
\* when the registry is empty
Sigint(next) ==
  /\ sd.pc = "running"
  /\ LoopFrom(transports, {sid \in Sids : SessionKnown(transports, sid)}, {}, next)
  /\ UNCHANGED <<month, accounts, transports, inflight, nreq, resp, usage0,
                 toolsServed, billable, tokens, codes, env>>

\* await transport.close() has settled (fulfilled or rejected into the empty
\* catch): delete transports[sid], then on to the next key or to process.exit
ShutdownResume(next) ==
  /\ sd.pc = "closing"
  /\ transports' = OnSessionClosed(transports, sd.cur)
  /\ LoopFrom(transports', sd.keys, sd.attempted, next)
  /\ UNCHANGED <<month, accounts, inflight, nreq, resp, usage0, toolsServed, billable,
                 tokens, codes, env>>

\* ---------------------------------------------------------------- inputs
SidInputs == {NoSid} \cup Sids
CredInputs == {None, "sk_a"}
CarrierInputs ==
  {NoCarriers}
    \cup {[NoCarriers EXCEPT !.xApiKey = k] : k \in Keys}

Next ==
  \/ \E sid \in SidInputs, cred \in CredInputs : Get(sid, cred)
  \/ \E sid \in SidInputs, cred \in CredInputs : Delete(sid, cred)
  \/ \E s \in Slots, sid \in SidInputs, c \in CarrierInputs, body \in Bodies :
       Post(s, sid, c, body)
  \/ \E s \in Slots : BodyStep(s)
  \/ \E s \in Slots, ok \in BOOLEAN : RecordStep(s, ok)
  \/ \E s \in Slots, ok \in BOOLEAN : InitStep(s, ok)
  \/ \E key \in Keys : UsageLookup(key)
  \/ AdvanceMonth

Spec == Init /\ [][Next]_vars

\* key administration next to one client at a time: signup, provisioning, and
\* session bootstrap and tool calls with a key in the x-api-key header
AdminSecrets == {None, "", "admin-secret", "wrong"}
AdminTiers == {"free", "pro"}
AdminBodies == {"initialize", "tools/call"}

NextAdmin ==
  \/ \E s \in Slots, hdr \in AdminSecrets, email \in Emails, tier \in AdminTiers :
       Provision(s, hdr, email, tier)
  \/ \E s \in Slots, name \in {None, "name"}, email \in Emails : Signup(s, name, email)
  \/ \E s \in Slots : CreateStep(s)
  \/ \E sid \in SidInputs, key \in Keys, body \in AdminBodies :
       Post(1, sid, [NoCarriers EXCEPT !.xApiKey = key], body)
  \/ RecordStep(1, TRUE)
  \/ InitStep(1, TRUE)

SpecAdmin == InitAdmin /\ [][NextAdmin]_vars

\* one client at a time sending up to MaxProbes requests that present
\* credentials through up to MaxCarriers of the accepted carriers: absent
\* (null), empty, or a key
CarrierNames == {"xApiKey", "apikeyHdr", "q_api_key", "q_apiKey", "q_apikey", "authToken"}
CarrierValues == {None, "", "sk_a", "sk_b"}
CarriersSet(c) == {f \in CarrierNames : c[f] # None}
WideCarriers ==
  {c \in [xApiKey : CarrierValues, apikeyHdr : CarrierValues, q_api_key : CarrierValues,
          q_apiKey : CarrierValues, q_apikey : CarrierValues,
          authScheme : {None, "Bearer", "Basic"}, authToken : CarrierValues] :
     /\ (c.authScheme = None) <=> (c.authToken = None)
     /\ Cardinality(CarriersSet(c)) <= MaxCarriers}

NextCarriers ==
  \/ \E sid \in SidInputs, c \in WideCarriers :
       nreq < MaxProbes /\ Post(1, sid, c, IF sid = NoSid THEN "initialize" ELSE "tools/call")
  \/ RecordStep(1, TRUE)
  \/ InitStep(1, TRUE)

SpecCarriers == Init /\ [][NextCarriers]_vars

\* a client that obtains an access token for its key and presents the token or
\* the key, one request at a time
OAuthCarriers ==
  {[NoCarriers EXCEPT !.authScheme = "Bearer", !.authToken = t] : t \in Tokens}
    \cup {[NoCarriers EXCEPT !.xApiKey = "sk_a"]}

NextOAuth ==
  \/ \E code \in Codes, key \in Keys, verifier \in Verifiers : Authorize(code, key, verifier)
  \/ \E code \in Codes : ExpireCode(code)
  \/ \E code \in Codes, verifier \in Verifiers : ExchangeCode(code, verifier)
  \/ \E sid \in SidInputs, c \in OAuthCarriers, body \in {"initialize", "tools/call", "tools/list"} :
       Post(1, sid, c, body)
  \/ BodyStep(1)
  \/ \E ok \in BOOLEAN : RecordStep(1, ok)
  \/ \E ok \in BOOLEAN : InitStep(1, ok)
  \/ \E key \in Keys : UsageLookup(key)
  \/ AdvanceMonth

SpecOAuth == Init /\ [][NextOAuth]_vars

\* the server until process.exit: session bootstraps and teardowns next to the
\* SIGINT handler
NextShutdown ==
  \/ \E next \in SidInputs : Sigint(next)
  \/ \E next \in SidInputs : ShutdownResume(next)
  \/ \E s \in Slots, sid \in SidInputs, body \in {"initialize", "tools/list"} :
       Post(s, sid, [NoCarriers EXCEPT !.xApiKey = "sk_a"], body)
  \/ \E s \in Slots : BodyStep(s)
  \/ \E s \in Slots, ok \in BOOLEAN : InitStep(s, ok)
  \/ \E sid \in SidInputs : Delete(sid, None)

SpecShutdown == Init /\ [][NextShutdown]_vars

TypeOK ==
  /\ month \in Months
  /\ nreq \in 0..MaxReqs
  /\ \A s \in Slots : inflight[s].pc \in {"idle", "body", "record", "init", "create"}
  /\ \A sid \in Sids : transports[sid].transport \in {NoT} \cup TIds

\* ================================================================ claims
Grown(k, m) == accounts[k].usage[m] - usage0[k][m]
LiveSids == {sid \in Sids : SessionKnown(transports, sid)}
Answered == resp.n # resp'.n

\* C1 (as stated): a POST without session identifier and without credential
\* whose operation is initialize or tools/list is not answered with an
\* authorization error and is served.
C1_DiscoveryAdmitted ==
  (resp.method = "POST" /\ resp.sid = NoSid /\ ~Truthy(resp.apiKey)
     /\ resp.body \in {"initialize", "tools/list"})
    => (resp.status # 401 /\ resp.fwd # NoT)

\* C1 (amended): a POST without a credential is denied whatever its operation
\* and session identifier: 401, code -32001, the missing-credential reason;
\* no transport is built or reached and no session identifier is issued.
C1_NoCredentialDenied ==
  (resp.method = "POST" /\ ~Truthy(resp.apiKey))
    => /\ resp.status = 401 /\ resp.code = -32001 /\ resp.msg = "MissingCredential"
       /\ resp.fwd = NoT /\ ~resp.alloc /\ resp.newSid = NoSid

C1_Witness ==
  /\ resp.method = "POST" /\ resp.sid = NoSid /\ ~Truthy(resp.apiKey)
  /\ resp.body = "initialize" /\ resp.status = 401

\* C2 (as stated): for every account and month the usage counter has grown by
\* exactly the number of tool invocations served with the account's key.
C2_UsageEqualsToolCalls ==
  \A k \in Keys, m \in Months : Grown(k, m) = toolsServed[k][m]

\* C2 (amended): for every account and month the usage counter has grown by
\* the number of authorized POSTs with the account's key that were handed to a
\* newly built transport (no known session) plus the number of single
\* tools/call POSTs handed to a session transport after recordUsage completed;
\* no other request changes it.
C2_UsageEqualsBillable ==
  \A k \in Keys, m \in Months : Grown(k, m) = billable[k][m]

C2_Witness ==
  /\ resp.method = "POST" /\ resp.body = "tools/call" /\ resp.status = 200 /\ resp.rec = 1
  /\ Grown("sk_a", 1) = 2
  /\ toolsServed["sk_a"][1] = 1

\* C3: a tools/call POST on a known session whose account is at or over its
\* monthly limit when authorized is answered 401 with the quota reason, reaches
\* no transport and completes no recordUsage.
C3_QuotaDeniedOnSession ==
  (resp.method = "POST" /\ resp.known /\ resp.body = "tools/call"
     /\ resp.deny = "QuotaExceeded")
    => /\ resp.status = 401 /\ resp.msg = "QuotaExceeded"
       /\ resp.fwd = NoT /\ resp.rec = 0

C3_Witness ==
  /\ resp.method = "POST" /\ resp.known /\ resp.body = "tools/call"
  /\ resp.deny = "QuotaExceeded" /\ resp.status = 401
  /\ Used(resp.apiKey) = TIER_LIMITS("free")

\* C4: every POST handed to a known session's transport that contains a tool
\* invocation carried a credential and completed recordUsage exactly once.
C4_ToolCallsMetered ==
  (resp.method = "POST" /\ resp.known /\ resp.fwd # NoT /\ ContainsToolCall(resp.body))
    => (Truthy(resp.apiKey) /\ resp.rec = 1)

\* C5: a POST without a known session records usage and creates a session only
\* when it is an initialize that succeeds (then one usage event, one session);
\* a non-initialize POST records nothing and creates nothing.
C5_OnlyInitializeBootstraps ==
  (resp.method = "POST" /\ ~resp.known)
    => /\ (resp.rec = 1) <=> (resp.newSid # NoSid)
       /\ resp.newSid # NoSid => resp.body = "initialize"
       /\ resp.body # "initialize" => (resp.rec = 0 /\ resp.newSid = NoSid)

\* C6: a POST whose session identifier is not in the registry has no effect
\* (no transport built, no usage recorded, no session issued) and, when its
\* credential is accepted, is answered 400.
C6_UnknownSessionNoEffect ==
  (resp.method = "POST" /\ resp.sid # NoSid /\ ~resp.known)
    => /\ ~resp.alloc /\ resp.rec = 0 /\ resp.newSid = NoSid
       /\ resp.deny = None => resp.status = 400

\* C7: a POST whose credential the authorizer denies is answered 401 with code
\* -32001 and the denial reason, reaches no transport, and its handler leaves
\* the registry, the transports and the usage counters as they were.
C7_DenialChangesNothing ==
  [][(Answered /\ resp'.method = "POST" /\ resp'.deny # None)
       => /\ resp'.status = 401 /\ resp'.code = -32001 /\ resp'.msg = resp'.deny
          /\ resp'.fwd = NoT /\ resp'.rec = 0
          /\ UNCHANGED <<transports, tr, accounts>>]_vars

C7_Witness ==
  /\ resp.method = "POST" /\ resp.deny = "UnknownCredential" /\ resp.status = 401
  /\ resp.known

\* C8 (as stated): a GET or DELETE with a known session identifier whose
\* credential is absent or denied reaches no transport and removes no session.
C8_SessionOpsAuthorized ==
  (resp.method \in {"GET", "DELETE"} /\ resp.known /\ resp.deny # None)
    => resp.fwd = NoT

\* C8 (amended): GET and DELETE are not authorized at all: they reach the
\* session's transport exactly when the session identifier is in the registry,
\* whatever credential they carry, and such a DELETE removes the session.
C8_SessionOpsBySessionOnly ==
  resp.method \in {"GET", "DELETE"}
    => /\ (resp.fwd # NoT) <=> resp.known
       /\ resp.known => resp.status = 200
       /\ (resp.method = "DELETE" /\ resp.known) => ~SessionKnown(transports, resp.sid)

C8_Witness ==
  /\ resp.method = "DELETE" /\ resp.known /\ resp.deny = "MissingCredential"
  /\ resp.fwd # NoT /\ tr[resp.fwd].closed

\* C9: every registered session identifier maps to the transport that issued
\* it, distinct transports hold distinct identifiers, and a request carrying a
\* registered identifier is handed to that identifier's transport only.
C9_SessionIsolation ==
  /\ \A sid \in LiveSids : tr[transports[sid].transport].sessionId = sid
  /\ \A t1, t2 \in TIds :
       (t1 # t2 /\ tr[t1].sessionId # NoSid) => tr[t1].sessionId # tr[t2].sessionId
  /\ \A s \in Slots :
       inflight[s].pc \in {"body", "record"} => tr[inflight[s].t].sessionId = inflight[s].sid
  /\ (resp.known /\ resp.fwd # NoT) => tr[resp.fwd].sessionId = resp.sid

C9_Witness ==
  /\ Cardinality(LiveSids) = 2
  /\ resp.method = "POST" /\ resp.known /\ resp.fwd # NoT /\ resp.status = 200

\* C10 (as stated): a DELETE whose session identifier is not in the registry
\* is answered with success.
C10_UnknownDeleteSucceeds ==
  (resp.method = "DELETE" /\ ~resp.known) => resp.status = 200

\* C10 (amended): a DELETE whose session identifier is not in the registry
\* (never issued, or already closed) is answered 404 with the JSON-RPC error
\* -32000 "Session not found", reaches no transport and leaves the registry
\* and the transports unchanged.
C10_UnknownDeleteNotFound ==
  [][(Answered /\ resp'.method = "DELETE" /\ ~resp'.known)
       => /\ resp'.status = 404 /\ resp'.code = -32000 /\ resp'.fwd = NoT
          /\ UNCHANGED <<transports, tr>>]_vars

C10_Witness ==
  /\ resp.method = "DELETE" /\ ~resp.known /\ resp.status = 404
  /\ \E t \in TIds : tr[t].closed /\ tr[t].sessionId = resp.sid

\* C11 (as stated): a tool call served on an existing session is gated by the
\* tier the Key Store holds for the account at that moment.
C11_CurrentTierGates ==
  [][(Answered /\ resp'.method = "POST" /\ resp'.known /\ resp'.gate # None)
       => resp'.gate = accounts'[resp'.apiKey].tier]_vars

\* C12 (as stated): a denial for a missing credential and the next denial, for
\* a credential that failed authorization, carry different codes.
C12_CodesDistinguish ==
  [][(Answered /\ resp.status = 401 /\ resp'.status = 401
        /\ resp.method = "POST" /\ resp'.method = "POST"
        /\ resp.deny = "MissingCredential"
        /\ resp'.deny \in {"UnknownCredential", "QuotaExceeded"})
       => resp.code # resp'.code]_vars

\* C12 (amended): every 401 of the MCP endpoint carries code -32001, whether the
\* credential is missing, unknown or over quota; the reason is the message
\* only, the id is null and the internal error carries -32603.
C12_OneDenialCode ==
  /\ (resp.method = "POST" /\ resp.status = 401)
       => (resp.code = -32001 /\ resp.msg = resp.deny /\ resp.id = "null"
           /\ resp.deny \in {"MissingCredential", "UnknownCredential", "QuotaExceeded"})
  /\ (resp.method = "POST" /\ resp.status = 500) => (resp.code = -32603 /\ resp.id = "null")
  /\ (resp.method = "POST" /\ resp.body = "unparsable" /\ resp.code # 0) => resp.id = "null"

C12_Witness ==
  /\ resp.method = "POST" /\ resp.status = 401 /\ resp.known
  /\ resp.body = "tools/call" /\ resp.deny = "MissingCredential"

\* the carriers in the documented order, the last being the Authorization
\* header without a leading "Bearer "
CarrierSeq(c) ==
  <<c.xApiKey, c.apikeyHdr, c.q_api_key, c.q_apiKey, c.q_apikey,
    IF c.authScheme = None THEN None
    ELSE IF c.authScheme = "Bearer" THEN c.authToken
    ELSE "raw-authorization-header">>

RECURSIVE FirstNonEmpty(_)
FirstNonEmpty(seq) ==
  IF seq = <<>> THEN None
  ELSE IF Head(seq) # None /\ Head(seq) # "" THEN Head(seq)
  ELSE FirstNonEmpty(Tail(seq))

IsAccount(k) == k \in Keys /\ accounts[k].exists

\* C13: the credential of a POST is the value of the first non-empty carrier
\* in the order x-api-key, apikey, ?api_key, ?apiKey, ?apikey, Authorization
\* header (without its "Bearer " prefix), whatever the later carriers hold; with no non-empty carrier the request has
\* no credential.  The authorizer's verdict is the verdict on that value and
\* the usage recorded for the request is added to that value's account.
C13_FirstCarrierWins ==
  [][(Answered /\ resp'.method = "POST") =>
       LET first == FirstNonEmpty(CarrierSeq(resp'.c)) IN
       /\ IF first = None THEN resp'.apiKey \in {None, ""} ELSE resp'.apiKey = first
       /\ (first = None) <=> (resp'.deny = "MissingCredential")
       /\ (first # None /\ ~IsAccount(first)) <=> (resp'.deny = "UnknownCredential")
       /\ \A k \in Keys :
            accounts'[k].usage[month] =
              accounts[k].usage[month] + (IF resp'.rec = 1 /\ k = first THEN 1 ELSE 0)]_vars

C13_Witness ==
  /\ resp.method = "POST" /\ resp.known /\ resp.rec = 1 /\ resp.status = 200
  /\ resp.c.q_apiKey = "sk_a" /\ resp.c.authToken = "sk_b"

\* C14: a POST presenting the key of an account through exactly one carrier,
\* whichever it is, is judged as that key: the credential is the key, it is
\* neither missing nor unknown, and a session it opens runs at the account's tier.
C14_CarrierTransparent ==
  (resp.method = "POST" /\ Cardinality(CarriersSet(resp.c)) = 1
     /\ resp.c.authScheme \in {None, "Bearer"})
    => \A f \in CarriersSet(resp.c) :
         IsAccount(resp.c[f])
           => /\ resp.apiKey = resp.c[f]
              /\ resp.deny \in {None, "QuotaExceeded"}
              /\ resp.alloc => tr[resp.n].tier = accounts[resp.c[f]].tier

C14_Witness ==
  /\ resp.method = "POST" /\ CarriersSet(resp.c) = {"authToken"}
  /\ resp.c.authToken = "sk_a" /\ resp.alloc /\ resp.status = 200 /\ resp.newSid # NoSid

\* C15 (as stated): a tools/list on an existing session is handed to the
\* session's transport whatever the account's quota.
C15_HousekeepingForwarded ==
  (resp.method = "POST" /\ resp.known /\ resp.body = "tools/list"
     /\ resp.deny \in {None, "QuotaExceeded"})
    => resp.fwd # NoT

\* C15 (amended): a tools/list on an existing session passes the same gate as
\* every POST: with the quota exhausted it is denied with 401 and reaches no
\* transport; admitted, it is handed to the session's transport and no usage
\* is recorded for it.
C15_HousekeepingGated ==
  (resp.method = "POST" /\ resp.known /\ resp.body = "tools/list")
    => IF resp.deny # None
         THEN resp.status = 401 /\ resp.fwd = NoT /\ resp.msg = resp.deny
         ELSE resp.fwd # NoT /\ resp.rec = 0

C15_Witness ==
  /\ resp.method = "POST" /\ resp.known /\ resp.body = "tools/list"
  /\ resp.deny = "QuotaExceeded" /\ resp.status = 401

\* C16 (as stated): every denial by the authorizer on a POST to the MCP endpoint
\* is a 401 that carries a WWW-Authenticate challenge.
C16_DenialChallenges ==
  (resp.method = "POST" /\ resp.deny # None /\ resp.fwd = NoT)
    => (resp.status = 401 /\ "WWW-Authenticate" \in resp.headers)

\* C17 (as stated): a signup with a name and an email is answered with the key
\* of the one account registered for the email.
C17_SignupIdempotent ==
  (resp.method = "SIGNUP" /\ resp.msg # "name and email required")
    => /\ resp.status = 200
       /\ getKeyByEmail(accounts, resp.email) = {resp.apiKey}

\* C18 (as stated): the usage event of a bootstrap or tool call authorized
\* with an access token is added to the current-month counter of the key the
\* token is bound to.
C18_TokenChargesKey ==
  [][(Answered /\ resp'.method = "POST" /\ resp'.rec = 1 /\ resp'.apiKey \in Tokens)
       => accounts'[tokens[resp'.apiKey]].usage[month] =
            accounts[tokens[resp'.apiKey]].usage[month] + 1]_vars

\* C19 (as stated): a POST is never handed to a session's transport while a
\* POST of the same session that arrived earlier is still in its handler.
C19_SessionOrder ==
  resp.method = "POST" => ~resp.overtook

\* C20 (as stated): when the SIGINT handler has reached process.exit, every
\* entry has been removed from the registry.
C20_ShutdownClosesAll ==
  sd.pc = "exited" =>
    \A sid \in Sids : ~SessionKnown(transports, sid)

\* C21 (as stated): when ADMIN_SECRET is not configured (the server warns that
\* the admin endpoints are disabled), every provisioning request is answered
\* Unauthorized and leaves the Key Store unchanged.
C21_ProvisionDisabled ==
  [][(Answered /\ resp'.method = "PROVISION" /\ AdminDisabled)
       => (resp'.status = 401 /\ accounts' = accounts)]_vars

Minted == {t \in Tokens : tokens[t] # None}

\* C22: a token request mints exactly one access token, bound to the code's
\* key, when its code is issued, unexpired and not yet exchanged and its
\* verifier matches the code's challenge, and the code is then exchanged for
\* good; every other token request (a code exchanged before, with the same or
\* another verifier, or a wrong verifier) is answered invalid_grant and mints
\* nothing.  An exchanged code never becomes redeemable again.
C22_CodeSingleUse ==
  [][/\ (Answered /\ resp'.method = "TOKEN") =>
          LET c == codes[resp'.grant] IN
          IF c.state = "issued" /\ c.challenge = <<"S256", resp'.verifier>>
            THEN /\ resp'.status = 200
                 /\ codes'[resp'.grant].state = "exchanged"
                 /\ Cardinality(Minted') = Cardinality(Minted) + 1
                 /\ tokens'[resp'.apiKey] = c.key
            ELSE /\ resp'.status = 400 /\ resp'.msg = "invalid_grant"
                 /\ tokens' = tokens /\ codes' = codes
     /\ \A code \in Codes :
          codes[code].state = "exchanged" => codes'[code].state = "exchanged"]_vars

C22_Witness ==
  /\ resp.method = "TOKEN" /\ resp.status = 400 /\ resp.msg = "invalid_grant"
  /\ codes[resp.grant].state = "exchanged"
  /\ codes[resp.grant].challenge = <<"S256", resp.verifier>>
  /\ Cardinality(Minted) = 1

\* C23 (as stated): a POST is handed to a session's transport only if the
\* credential it presents is the one captured when the session was created.
C23_SessionBoundToCreator ==
  [][(Answered /\ resp'.method = "POST" /\ resp'.known /\ resp'.fwd # NoT
        /\ SessionKnown(transports, resp'.sid))
       => resp'.apiKey = transports[resp'.sid].apiKey]_vars

\* C24 (as stated): the current-month usage counter of an account never
\* exceeds the monthly limit of its tier.
C24_UsageWithinLimit ==
  \A k \in Keys :
    accounts[k].exists => Used(k) <= TIER_LIMITS(accounts[k].tier)

\* C25 (as stated): when the SIGINT handler has reached process.exit, close
\* has been called on the transport of every session that was ever registered,
\* those bootstrapped while the handler awaited a close included, and no
\* session is registered.
C25_NoSessionLeftBehind ==
  sd.pc = "exited" =>
    /\ \A t \in TIds :
         tr[t].initialized => (tr[t].closed \/ tr[t].sessionId \in sd.attempted)
    /\ LiveSids = {}

====
